---------------------------- MODULE Spec2Model ----------------------------
(***************************************************************************)
(* Model of the movie recommender: the Metadata Client of helpers.py       *)
(* (TMDb wrappers memoized with st.cache_data), and the chat handler of    *)
(* app.py that dispatches the language model's function calls to them.     *)
(*                                                                         *)
(* Python strings that the code transforms (genre names, person names,     *)
(* the sort mode, crew jobs) are sequences of one-character strings, so    *)
(* that strip(), lower() and sorted() are computed, not assumed.  Strings  *)
(* the code only passes through (titles, queries, messages) are TLA+       *)
(* strings.  Time is in seconds, as in the ttl= arguments.                 *)
(***************************************************************************)
EXTENDS Integers, Sequences, FiniteSets, TLC

VARIABLES
    API_KEY,          \* helpers.API_KEY: "" when the secret is missing
    cache,            \* st.cache_data: one memo table per decorated function
    now,              \* wall clock, seconds
    chat_history,     \* st.session_state.chat_history
    selected_movie,   \* st.session_state.selected_movie (NoMovie when absent)
    error_shown,      \* st.error banner drawn by the last run of the chat handler
    raised,           \* TRUE when the last run of the chat handler ended in an uncaught exception
    invoked,          \* name of the tool function the last chat run invoked ("" when none)
    last_reply,       \* the language model's reply in the last run of the chat handler
    last,             \* observation of the last Metadata Client call: arguments, result, requests issued
    first,            \* observation of the first call per operation/argument since the last cache clear
    genres_arg,       \* argument under study for get_recommendations_by_genre
    genres_first,     \* the argument of the first call, of which genres_arg is a variant
    edits,            \* number of variations applied to genres_first
    payload,          \* the provider's answers under study, when one call is studied over all of them
    sent,             \* the contents of the last request sent to the language model
    last_picked       \* the sorted credits and the ids chosen for detail lookup by the last by-person call

vars == <<API_KEY, cache, now, chat_history, selected_movie, error_shown, raised,
          invoked, last_reply, last, first, genres_arg, genres_first, edits, payload, sent,
          last_picked>>

-----------------------------------------------------------------------------
(* Bounds of the model.                                                    *)

MaxTurns == 5        \* chat_history is explored up to this many turns
MaxCalls == 2        \* Metadata Client calls explored per behaviour
MaxTime == 21600     \* the clock stops advancing here (6 h)
MaxEdits == 3        \* variations applied to a genre argument
MaxCredits == 4      \* credits in a person's filmography when votes are studied
MaxCrew == 3         \* crew credits in a person's filmography when jobs are studied
MaxAge == 90000      \* the clock stops advancing here when expiry is studied (25 h)

-----------------------------------------------------------------------------
(* Python str operations on sequences of characters.                       *)

UpperChars == <<"A","B","C","D","E","F","G","H","I","J","K","L","M",
                "N","O","P","Q","R","S","T","U","V","W","X","Y","Z">>
LowerChars == <<"a","b","c","d","e","f","g","h","i","j","k","l","m",
                "n","o","p","q","r","s","t","u","v","w","x","y","z">>

IsUpper(c) == \E i \in 1..26 : UpperChars[i] = c
IsLower(c) == \E i \in 1..26 : LowerChars[i] = c
IsSpace(c) == c = " "

\* ord(c) for the characters that occur
ord(c) ==
    IF c = " " THEN 32
    ELSE IF c = "-" THEN 45
    ELSE IF c = "_" THEN 95
    ELSE IF IsUpper(c) THEN 64 + (CHOOSE i \in 1..26 : UpperChars[i] = c)
    ELSE 96 + (CHOOSE i \in 1..26 : LowerChars[i] = c)

lower_char(c) ==
    IF IsUpper(c) THEN LowerChars[CHOOSE i \in 1..26 : UpperChars[i] = c] ELSE c

upper_char(c) ==
    IF IsLower(c) THEN UpperChars[CHOOSE i \in 1..26 : LowerChars[i] = c] ELSE c

\* str.lower()
lower(s) == [i \in 1..Len(s) |-> lower_char(s[i])]

\* str.strip(): drop leading and trailing whitespace
strip(s) ==
    LET keep == {i \in 1..Len(s) : ~IsSpace(s[i])}
    IN  IF keep = {} THEN <<>>
        ELSE LET lo == CHOOSE i \in keep : \A j \in keep : i <= j
                 hi == CHOOSE i \in keep : \A j \in keep : j <= i
             IN  SubSeq(s, lo, hi)

\* a < b for Python strings: lexicographic by code point
StrLess(a, b) ==
    \E k \in 1..(Len(b)) :
        /\ \A i \in 1..(k-1) : i <= Len(a) /\ a[i] = b[i]
        /\ k - 1 <= Len(a)
        /\ \/ k = Len(a) + 1
           \/ k <= Len(a) /\ ord(a[k]) < ord(b[k])

\* sorted(s): ascending, stable
SortedAsc(s, Less(_, _)) ==
    LET n == Len(s)
        rank(i) == 1 + Cardinality({j \in 1..n :
                         \/ Less(s[j], s[i])
                         \/ (~Less(s[i], s[j]) /\ ~Less(s[j], s[i]) /\ j < i)})
    IN  [p \in 1..n |-> s[CHOOSE i \in 1..n : rank(i) = p]]

\* sorted(s, reverse=True) / list.sort(reverse=True): descending; elements
\* with equal keys keep their original relative order
SortedDesc(s, Less(_, _)) ==
    LET n == Len(s)
        rank(i) == 1 + Cardinality({j \in 1..n :
                         \/ Less(s[i], s[j])
                         \/ (~Less(s[i], s[j]) /\ ~Less(s[j], s[i]) /\ j < i)})
    IN  [p \in 1..n |-> s[CHOOSE i \in 1..n : rank(i) = p]]

\* s[:n]
Take(s, n) == SubSeq(s, 1, IF Len(s) < n THEN Len(s) ELSE n)

\* [x for x in s if Keep(x)]
RECURSIVE FilterSeq(_, _)
FilterSeq(s, keep) ==
    IF s = <<>> THEN <<>>
    ELSE IF Head(s) \in keep THEN <<Head(s)>> \o FilterSeq(Tail(s), keep)
    ELSE FilterSeq(Tail(s), keep)

\* v evaluated once and named in F: the local variable of a function body
Bind(v, F(_)) == CHOOSE y \in {F(x) : x \in {v}} : TRUE

\* Python truthiness of a list or dict
Truthy(x) == DOMAIN x # {}

\* a key absent from a JSON object (or null); numeric fields are >= 0 otherwise
Missing == -1
\* x.get(field, 0) or 0
OrZero(n) == IF n = Missing THEN 0 ELSE n

-----------------------------------------------------------------------------
(* st.cache_data: every decorated function has its own memo table, keyed   *)
(* by the call's arguments; an entry is served while its age is below the  *)
(* function's ttl, and st.cache_data.clear() empties every table.          *)

TTL_get_movie_details == 60 * 60 * 12
TTL_search_movie == 60 * 60 * 6
TTL_cached_get_recommendations_by_genre == 60 * 60 * 6
TTL_get_genre_dict == 60 * 60 * 24
TTL_get_similar_movies == 60 * 60 * 6
TTL_get_trending_movies == 60 * 60 * 6
TTL_get_top_rated_movies == 60 * 60 * 6
TTL_resolve_person_id == 60 * 60 * 24
TTL_get_movies_by_actor == 60 * 60 * 6
TTL_get_movies_by_director == 60 * 60 * 6

NoEntries == <<>>

EmptyCache ==
    [get_movie_details |-> NoEntries,
     search_movie |-> NoEntries,
     cached_get_recommendations_by_genre |-> NoEntries,
     get_genre_dict |-> NoEntries,
     get_similar_movies |-> NoEntries,
     get_trending_movies |-> NoEntries,
     get_top_rated_movies |-> NoEntries,
     resolve_person_id |-> NoEntries,
     get_movies_by_actor |-> NoEntries,
     get_movies_by_director |-> NoEntries]

\* an entry that never expires
FreshForever(tbl, k, ttl) == k \in DOMAIN tbl

\* the entry of key k in table tbl is present and not expired
Fresh(tbl, k, ttl) == k \in DOMAIN tbl /\ now - tbl[k].time < ttl

\* A call in progress threads st = [tables, reqs, hits, escaped]: the memo
\* tables, the number of HTTP requests sent to the provider so far, the number
\* of values served from entries that existed before the call began, and
\* whether an exception has left the function that raised it.
Begin == [tables |-> cache, reqs |-> 0, hits |-> 0, escaped |-> FALSE]

\* requests.get(url): one more request to the provider
Requested(st) == [st EXCEPT !.reqs = @ + 1]

\* cache hit: the stored value is returned, the function body does not run
Served(st, fn, k) ==
    [val |-> st.tables[fn][k].value,
     st  |-> [st EXCEPT !.hits = @ + (IF k \in DOMAIN cache[fn] THEN 1 ELSE 0)]]

\* a memo that keeps successes only: None, {} and [] are not stored
StoredUnlessEmpty(r, fn, k) ==
    [val |-> r.val,
     st  |-> IF r.st.escaped \/ r.val = (IF fn = "resolve_person_id" THEN Missing ELSE <<>>)
             THEN r.st
             ELSE [r.st EXCEPT !.tables[fn] = (k :> [value |-> r.val, time |-> now]) @@ @]]

\* cache miss: the body ran and returned r = [val, st]; r.val is stored
Stored(r, fn, k) ==
    [val |-> r.val,
     st  |-> IF r.st.escaped THEN r.st
             ELSE [r.st EXCEPT !.tables[fn] = (k :> [value |-> r.val, time |-> now]) @@ @]]

\* a clear that forgets the tools' tables and keeps those of the helpers
ClearedToolsOnly ==
    [EmptyCache EXCEPT !.get_movie_details = cache.get_movie_details,
                       !.get_genre_dict = cache.get_genre_dict,
                       !.resolve_person_id = cache.resolve_person_id]

\* st.cache_data.clear()
Cleared == EmptyCache

-----------------------------------------------------------------------------
(* The provider.  Every request is answered by the oracle orc of the call, *)
(* chosen freely per call: orc.<endpoint> is Fail (HTTP error, network     *)
(* error or a body that does not parse) or an Ok payload, and              *)
(* orc.detail_fail is the set of movie ids whose detail request fails.     *)

\* orc.failure is how the failing requests of the call fail: an HTTP error
\* status, a network error, or a body that is not JSON.
FailureKinds == {"http", "network", "json"}

\* raise_for_status() raises HTTPError, requests.get ConnectionError, and
\* response.json() a JSONDecodeError (a ValueError)
exception_of(kind) ==
    CASE kind = "http" -> "HTTPError"
      [] kind = "network" -> "ConnectionError"
      [] OTHER -> "JSONDecodeError"

\* `except <clause>` catches exc
Catches(clause, exc) ==
    \/ clause = "Exception"
    \/ clause = "RequestException" /\ exc \in {"HTTPError", "ConnectionError"}

\* every function with the clause for request errors only
except_clauses_requests_only(fn) == {"RequestException"}

\* the except clauses after the try block of function fn
except_clauses(fn) ==
    IF fn \in {"get_genre_dict", "resolve_person_id"}
    THEN {"Exception"}
    ELSE {"RequestException", "Exception"}

\* a request of fn failed inside its try block: the exception is caught by
\* one of fn's clauses, or it leaves fn (the value returned is then
\* immaterial)
Raise(st, orc, fn) ==
    IF \E clause \in except_clauses(fn) : Catches(clause, exception_of(orc.failure))
    THEN st
    ELSE [st EXCEPT !.escaped = TRUE]

Fail == [ok |-> FALSE, results |-> <<>>]
Ok(results) == [ok |-> TRUE, results |-> results]

EmptyDict == <<>>
EmptyList == <<>>
None == Missing

TitleOf == <<"Dune", "Heat", "Alien", "Jaws", "Up", "Big", "Her">>

\* --- helpers.get_movie_details ---
\* the body without its API-key guard
get_movie_details_body_keyless(st, movie_id, orc) ==
    IF movie_id \in orc.detail_fail
    THEN [val |-> EmptyDict, st |-> Requested(st)]
    ELSE [val |-> [id |-> movie_id, title |-> TitleOf[movie_id], fetched |-> now],
          st  |-> Requested(st)]

get_movie_details_body(st, movie_id, orc) ==
    IF API_KEY = "" THEN [val |-> EmptyDict, st |-> st]
    ELSE IF movie_id \in orc.detail_fail
         THEN [val |-> EmptyDict, st |-> Raise(Requested(st), orc, "get_movie_details")]
         ELSE [val |-> [id |-> movie_id,
                        title |-> TitleOf[movie_id],
                        fetched |-> now],   \* the provider's data as of this moment
               st  |-> Requested(st)]

get_movie_details(st, movie_id, orc) ==
    IF Fresh(st.tables.get_movie_details, movie_id, TTL_get_movie_details)
    THEN Served(st, "get_movie_details", movie_id)
    ELSE Stored(get_movie_details_body(st, movie_id, orc), "get_movie_details", movie_id)

\* [get_movie_details(mid) for mid in ids], then [m for m in detailed if m]
RECURSIVE detailed_movies(_, _, _)
detailed_movies(st, ids, orc) ==
    IF ids = <<>> THEN [val |-> EmptyList, st |-> st]
    ELSE Bind(get_movie_details(st, Head(ids), orc), LAMBDA d :
         Bind(detailed_movies(d.st, Tail(ids), orc), LAMBDA rest :
              [val |-> (IF Truthy(d.val) THEN <<d.val>> ELSE <<>>) \o rest.val,
               st  |-> rest.st]))

\* the ids of all the items, not of the first five
all_ids(items) == [i \in 1..Len(items) |-> items[i].id]

\* [movie['id'] for movie in items[:5]]; a missing 'id' key raises KeyError
top_5_ids(items) == [i \in 1..Len(Take(items, 5)) |-> items[i].id]
HasKeyError(ids) == \E i \in 1..Len(ids) : ids[i] = Missing

\* key=lambda x: x.get('popularity', 0)
PopularityLess(a, b) == OrZero(a.popularity) < OrZero(b.popularity)

\* the shared tail of the list tools: ids of the first five, details, filter
ListTail(st, items, orc) ==
    IF items = <<>> THEN [val |-> EmptyList, st |-> st]
    ELSE IF HasKeyError(top_5_ids(items)) THEN [val |-> EmptyList, st |-> st]
    ELSE detailed_movies(st, top_5_ids(items), orc)

\* --- helpers.search_movie ---
best_match_id(results) == SortedDesc(Take(results, 5), PopularityLess)[1].id

search_movie_body(st, query, orc) ==
    IF API_KEY = "" THEN [val |-> EmptyList, st |-> st]
    ELSE IF ~orc.search.ok
         THEN [val |-> EmptyList, st |-> Raise(Requested(st), orc, "search_movie")]
    ELSE IF orc.search.results = <<>> THEN [val |-> EmptyList, st |-> Requested(st)]
    ELSE Bind(best_match_id(orc.search.results), LAMBDA best :
         IF best = Missing THEN [val |-> EmptyList, st |-> Requested(st)]
         ELSE Bind(get_movie_details(Requested(st), best, orc), LAMBDA d :
                   [val |-> <<d.val>>, st |-> d.st]))

\* the function without its memo
search_movie_unmemoized(st, query, orc) == search_movie_body(st, query, orc)

search_movie(st, query, orc) ==
    IF Fresh(st.tables.search_movie, query, TTL_search_movie)
    THEN Served(st, "search_movie", query)
    ELSE Stored(search_movie_body(st, query, orc), "search_movie", query)

\* --- helpers.get_genre_dict ---
\* {g['name'].lower(): g['id'] for g in genre_list}: a later duplicate wins
genre_dict_of(genre_list) ==
    [n \in {lower(genre_list[i].name) : i \in 1..Len(genre_list)} |->
        genre_list[CHOOSE i \in 1..Len(genre_list) :
                      /\ lower(genre_list[i].name) = n
                      /\ \A j \in (i+1)..Len(genre_list) : lower(genre_list[j].name) # n].id]

get_genre_dict_body(st, orc) ==
    IF API_KEY = "" THEN [val |-> EmptyDict, st |-> st]
    ELSE IF ~orc.genres.ok
         THEN [val |-> EmptyDict, st |-> Raise(Requested(st), orc, "get_genre_dict")]
    ELSE [val |-> genre_dict_of(orc.genres.results), st |-> Requested(st)]

get_genre_dict(st, orc) ==
    IF Fresh(st.tables.get_genre_dict, <<>>, TTL_get_genre_dict)
    THEN Served(st, "get_genre_dict", <<>>)
    ELSE Stored(get_genre_dict_body(st, orc), "get_genre_dict", <<>>)

\* --- helpers._cached_get_recommendations_by_genre ---
\* [genre_dict[g] for g in genres_key if g in genre_dict]
genre_ids_of(genre_dict, genres_key) ==
    LET found == FilterSeq(genres_key, DOMAIN genre_dict)
    IN  [i \in 1..Len(found) |-> genre_dict[found[i]]]

cached_get_recommendations_by_genre_body(st, genres_key, orc) ==
    IF API_KEY = "" THEN [val |-> EmptyList, st |-> st]
    ELSE Bind(get_genre_dict(st, orc), LAMBDA gd :
         IF genre_ids_of(gd.val, genres_key) = <<>> THEN [val |-> EmptyList, st |-> gd.st]
         ELSE IF ~orc.discover.ok
              THEN [val |-> EmptyList,
                    st  |-> Raise(Requested(gd.st), orc, "cached_get_recommendations_by_genre")]
         ELSE ListTail(Requested(gd.st), orc.discover.results, orc))

cached_get_recommendations_by_genre(st, genres_key, orc) ==
    IF Fresh(st.tables.cached_get_recommendations_by_genre, genres_key,
             TTL_cached_get_recommendations_by_genre)
    THEN Served(st, "cached_get_recommendations_by_genre", genres_key)
    ELSE Stored(cached_get_recommendations_by_genre_body(st, genres_key, orc),
                "cached_get_recommendations_by_genre", genres_key)

\* --- helpers.get_recommendations_by_genre ---
\* The argument is [type |-> "list", value |-> <<name, ...>>] or
\* [type |-> "str", value |-> name]; list(genres) of a str is its characters.
as_list(g) ==
    IF g.type = "str" THEN [i \in 1..Len(g.value) |-> <<g.value[i]>>] ELSE g.value

\* the key without sorted(): element order leaks into it
normalized_unsorted(g) == [i \in 1..Len(as_list(g)) |-> lower(strip(as_list(g)[i]))]

\* tuple(sorted([str(g).strip().lower() for g in list(genres)]))
normalized(g) ==
    SortedAsc([i \in 1..Len(as_list(g)) |-> lower(strip(as_list(g)[i]))], StrLess)

get_recommendations_by_genre(st, g, orc) ==
    cached_get_recommendations_by_genre(st, normalized(g), orc)

\* --- helpers.get_similar_movies ---
get_similar_movies_body(st, title, orc) ==
    IF API_KEY = "" THEN [val |-> EmptyList, st |-> st]
    ELSE IF ~orc.search.ok
         THEN [val |-> EmptyList, st |-> Raise(Requested(st), orc, "get_similar_movies")]
    ELSE IF orc.search.results = <<>> THEN [val |-> EmptyList, st |-> Requested(st)]
    ELSE IF best_match_id(orc.search.results) = Missing
         THEN [val |-> EmptyList, st |-> Requested(st)]
    ELSE IF ~orc.similar.ok
         THEN [val |-> EmptyList,
               st  |-> Raise(Requested(Requested(st)), orc, "get_similar_movies")]
    ELSE ListTail(Requested(Requested(st)), orc.similar.results, orc)

get_similar_movies(st, title, orc) ==
    IF Fresh(st.tables.get_similar_movies, title, TTL_get_similar_movies)
    THEN Served(st, "get_similar_movies", title)
    ELSE Stored(get_similar_movies_body(st, title, orc), "get_similar_movies", title)

\* --- helpers.get_trending_movies ---
s_week == <<"w","e","e","k">>
s_day == <<"d","a","y">>

\* window = 'week' if str(window).lower() == 'week' else 'day'
coerced_window(window) == IF lower(window) = s_week THEN "week" ELSE "day"

get_trending_movies_body(st, window, orc) ==
    IF API_KEY = "" THEN [val |-> EmptyList, st |-> st]
    ELSE IF ~orc.trending[coerced_window(window)].ok
         THEN [val |-> EmptyList, st |-> Raise(Requested(st), orc, "get_trending_movies")]
    ELSE ListTail(Requested(st), orc.trending[coerced_window(window)].results, orc)

get_trending_movies(st, window, orc) ==
    IF Fresh(st.tables.get_trending_movies, window, TTL_get_trending_movies)
    THEN Served(st, "get_trending_movies", window)
    ELSE Stored(get_trending_movies_body(st, window, orc), "get_trending_movies", window)

\* --- helpers.get_top_rated_movies ---
get_top_rated_movies_body(st, orc) ==
    IF API_KEY = "" THEN [val |-> EmptyList, st |-> st]
    ELSE IF ~orc.top_rated.ok
         THEN [val |-> EmptyList, st |-> Raise(Requested(st), orc, "get_top_rated_movies")]
    ELSE ListTail(Requested(st), orc.top_rated.results, orc)

get_top_rated_movies(st, orc) ==
    IF Fresh(st.tables.get_top_rated_movies, <<>>, TTL_get_top_rated_movies)
    THEN Served(st, "get_top_rated_movies", <<>>)
    ELSE Stored(get_top_rated_movies_body(st, orc), "get_top_rated_movies", <<>>)

\* --- helpers._resolve_person_id ---
resolve_person_id_body(st, name, orc) ==
    IF API_KEY = "" THEN [val |-> None, st |-> st]
    ELSE IF strip(name) = <<>> THEN [val |-> None, st |-> st]
    ELSE IF ~orc.person.ok
         THEN [val |-> None, st |-> Raise(Requested(st), orc, "resolve_person_id")]
    ELSE IF orc.person.results = <<>> THEN [val |-> None, st |-> Requested(st)]
    ELSE [val |-> SortedDesc(Take(orc.person.results, 5), PopularityLess)[1].id,
          st  |-> Requested(st)]

resolve_person_id(st, name, orc) ==
    IF Fresh(st.tables.resolve_person_id, name, TTL_resolve_person_id)
    THEN Served(st, "resolve_person_id", name)
    ELSE Stored(resolve_person_id_body(st, name, orc), "resolve_person_id", name)

\* --- helpers._safe_top_rated_sort_key ---
threshold == 500

\* a key of the vote average alone
average_sort_key(movie) == <<0, OrZero(movie.vote_average)>>

\* the tuple (vote_count >= threshold, vote_average), False < True as 0 < 1
safe_top_rated_sort_key(movie) ==
    <<IF OrZero(movie.vote_count) >= threshold THEN 1 ELSE 0, OrZero(movie.vote_average)>>

\* tuple comparison of two sort keys
KeyLess(k1, k2) == k1[1] < k2[1] \/ (k1[1] = k2[1] /\ k1[2] < k2[2])

TopRatedLess(a, b) == KeyLess(safe_top_rated_sort_key(a), safe_top_rated_sort_key(b))

\* `if not person_id` / `if m.get('id')`: None and 0 are falsy
Falsy(n) == n = Missing \/ n = 0

\* unique = {m['id']: m for m in lst if m.get('id')}; list(unique.values()):
\* a dict keeps the position of an id's first credit and the value of its last
unique_values(lst) ==
    LET withId == {i \in 1..Len(lst) : ~Falsy(lst[i].id)}
        firsts == {i \in withId : \A j \in withId : j < i => lst[j].id # lst[i].id}
        lastOf(i) == CHOOSE j \in withId :
                        /\ lst[j].id = lst[i].id
                        /\ \A k \in withId : lst[k].id = lst[i].id => k <= j
        nth(p) == CHOOSE i \in firsts : Cardinality({j \in firsts : j < i}) = p - 1
    IN  [p \in 1..Cardinality(firsts) |-> lst[lastOf(nth(p))]]

s_top_rated == <<"t","o","p","_","r","a","t","e","d">>
s_popularity == <<"p","o","p","u","l","a","r","i","t","y">>

\* mode = str(sort).lower(); movies.sort(key=..., reverse=True)
sorted_movies(movies, sort) ==
    IF lower(sort) = s_top_rated
    THEN SortedDesc(movies, TopRatedLess)
    ELSE SortedDesc(movies, PopularityLess)

\* top_ids = [m['id'] for m in movies[:5]]
top_ids_of(movies) == [i \in 1..Len(Take(movies, 5)) |-> movies[i].id]

NothingPicked == [ranked |-> <<>>, top_ids |-> <<>>]

\* the shared tail of the two by-person tools, from the filtered credit list on
PersonTail(st, lst, sort, orc) ==
    Bind(sorted_movies(unique_values(lst), sort), LAMBDA movies :
    Bind(detailed_movies(st, top_ids_of(movies), orc), LAMBDA d :
         [val |-> d.val, st |-> d.st,
          picked |-> [ranked |-> movies, top_ids |-> top_ids_of(movies)]]))

Returned(r) == [val |-> r.val, st |-> r.st, picked |-> NothingPicked]

\* --- helpers.get_movies_by_actor ---
get_movies_by_actor_body(st, name, sort, orc) ==
    IF API_KEY = "" THEN Returned([val |-> EmptyList, st |-> st])
    ELSE Bind(resolve_person_id(st, name, orc), LAMBDA p :
         IF Falsy(p.val) THEN Returned([val |-> EmptyList, st |-> p.st])
         ELSE IF ~orc.credits.ok
              THEN Returned([val |-> EmptyList,
                             st  |-> Raise(Requested(p.st), orc, "get_movies_by_actor")])
         ELSE IF orc.credits.cast = <<>>
              THEN Returned([val |-> EmptyList, st |-> Requested(p.st)])
         ELSE PersonTail(Requested(p.st), orc.credits.cast, sort, orc))

StoredPicked(r, fn, k) ==
    [val |-> r.val, st |-> Stored(r, fn, k).st, picked |-> r.picked]

get_movies_by_actor(st, name, sort, orc) ==
    IF Fresh(st.tables.get_movies_by_actor, <<name, sort>>, TTL_get_movies_by_actor)
    THEN Returned(Served(st, "get_movies_by_actor", <<name, sort>>))
    ELSE StoredPicked(get_movies_by_actor_body(st, name, sort, orc),
                      "get_movies_by_actor", <<name, sort>>)

\* --- helpers.get_movies_by_director ---
s_director == <<"d","i","r","e","c","t","o","r">>

\* the crew list without the filter on the job
any_job(crew_list) == crew_list

\* [m for m in crew_list if (m.get('job') or '').lower() == 'director']
directed(crew_list) ==
    FilterSeq(crew_list, {crew_list[i] : i \in {j \in 1..Len(crew_list) :
                                                   lower(crew_list[j].job) = s_director}})

get_movies_by_director_body(st, name, sort, orc) ==
    IF API_KEY = "" THEN Returned([val |-> EmptyList, st |-> st])
    ELSE Bind(resolve_person_id(st, name, orc), LAMBDA p :
         IF Falsy(p.val) THEN Returned([val |-> EmptyList, st |-> p.st])
         ELSE IF ~orc.credits.ok
              THEN Returned([val |-> EmptyList,
                             st  |-> Raise(Requested(p.st), orc, "get_movies_by_director")])
         ELSE IF directed(orc.credits.crew) = <<>>
              THEN Returned([val |-> EmptyList, st |-> Requested(p.st)])
         ELSE PersonTail(Requested(p.st), directed(orc.credits.crew), sort, orc))

get_movies_by_director(st, name, sort, orc) ==
    IF Fresh(st.tables.get_movies_by_director, <<name, sort>>, TTL_get_movies_by_director)
    THEN Returned(Served(st, "get_movies_by_director", <<name, sort>>))
    ELSE StoredPicked(get_movies_by_director_body(st, name, sort, orc),
                      "get_movies_by_director", <<name, sort>>)

-----------------------------------------------------------------------------
(* Provider payloads the model draws from.                                 *)

MovieIds == 1..6

Item(i, p) == [id |-> i, popularity |-> p]

\* a list endpoint's results for the given ids, most popular first
Listing(ids) == [k \in 1..Len(ids) |-> Item(ids[k], 100 - k)]

Credit(i, p, vc, va, job) ==
    [id |-> i, popularity |-> p, vote_count |-> vc, vote_average |-> va, job |-> job]

GenreList ==
    <<[name |-> <<"W","a","r">>, id |-> 10752],
      [name |-> <<"D","r","a","m","a">>, id |-> 18]>>

NoCredits == [ok |-> TRUE, cast |-> <<>>, crew |-> <<>>]
CreditsDown == [ok |-> FALSE, cast |-> <<>>, crew |-> <<>>]

job_Director == <<"D","i","r","e","c","t","o","r">>
job_Producer == <<"P","r","o","d","u","c","e","r">>

\* every endpoint answers
OrcUp ==
    [search      |-> Ok(<<Item(2, 5), Item(1, 10)>>),
     similar     |-> Ok(Listing(<<3, 4>>)),
     discover    |-> Ok(Listing(<<5, 1, 2>>)),
     trending    |-> [day |-> Ok(Listing(<<1, 2, 3, 4, 5, 6>>)), week |-> Ok(Listing(<<6>>))],
     top_rated   |-> Ok(Listing(<<4, 3>>)),
     genres      |-> Ok(GenreList),
     person      |-> Ok(<<Item(9, 3)>>),
     credits     |-> [ok |-> TRUE,
                      cast |-> <<Credit(2, 7, 900, 80, <<>>), Credit(3, 9, 20, 95, <<>>)>>,
                      crew |-> <<Credit(5, 1, 600, 70, job_Director),
                                 Credit(6, 2, 600, 90, job_Producer)>>],
     detail_fail |-> {},
     failure     |-> "http"]

\* every endpoint answers, the detail requests fail
OrcDetailsDown == [OrcUp EXCEPT !.detail_fail = MovieIds]

\* every endpoint answers with nothing
OrcNothing ==
    [search      |-> Ok(<<>>),
     similar     |-> Ok(<<>>),
     discover    |-> Ok(<<>>),
     trending    |-> [day |-> Ok(<<>>), week |-> Ok(<<>>)],
     top_rated   |-> Ok(<<>>),
     genres      |-> Ok(<<>>),
     person      |-> Ok(<<>>),
     credits     |-> NoCredits,
     detail_fail |-> {},
     failure     |-> "http"]

\* every request fails
OrcDown ==
    [search      |-> Fail,
     similar     |-> Fail,
     discover    |-> Fail,
     trending    |-> [day |-> Fail, week |-> Fail],
     top_rated   |-> Fail,
     genres      |-> Fail,
     person      |-> Fail,
     credits     |-> CreditsDown,
     detail_fail |-> MovieIds,
     failure     |-> "http"]

-----------------------------------------------------------------------------
(* app.py: the tool registry and the chat handler.  A turn's content is    *)
(* the sequence of the pieces its f-string is made of.                     *)

tools ==
    <<"search_movie", "get_recommendations_by_genre", "get_similar_movies",
      "get_trending_movies", "get_top_rated_movies", "get_movies_by_actor",
      "get_movies_by_director">>

\* the functions helpers.py defines
helpers_functions ==
    {tools[i] : i \in 1..Len(tools)} \cup
    {"get_movie_details", "get_genre_dict", "_cached_get_recommendations_by_genre",
     "_resolve_person_id", "_safe_top_rated_sort_key"}

NoTool == ""

\* lookup through the whole helpers module instead of the registry
tool_function_any_helper(name) == IF name \in helpers_functions THEN name ELSE NoTool

\* next((f for f in tools if f.__name__ == function_call.name), None)
tool_function(name) == IF \E i \in 1..Len(tools) : tools[i] = name THEN name ELSE NoTool

\* parameters of each function, and those without a default
Params(f) ==
    CASE f = "search_movie" -> {"query"}
      [] f = "get_recommendations_by_genre" -> {"genres"}
      [] f = "get_similar_movies" -> {"title"}
      [] f = "get_trending_movies" -> {"window"}
      [] f = "get_top_rated_movies" -> {}
      [] f = "get_movies_by_actor" -> {"name", "sort"}
      [] f = "get_movies_by_director" -> {"name", "sort"}
      [] f = "get_movie_details" -> {"movie_id"}
      [] f = "_resolve_person_id" -> {"name"}
      [] OTHER -> {}

Required(f) == Params(f) \ (IF f = "get_trending_movies" THEN {"window"} ELSE {"sort"})

\* f(**args) binds: no unexpected keyword, no missing argument (else TypeError)
Binds(f, args) == Required(f) \subseteq DOMAIN args /\ DOMAIN args \subseteq Params(f)

\* An omitted window/sort takes its default; the memo key of such a call differs
\* from that of a call passing the default explicitly, and the empty string
\* stands for it: it is coerced like the default and is a key of its own.
Arg(args, k) == IF k \in DOMAIN args THEN args[k] ELSE <<>>

Plain(r) == [val |-> r.val, st |-> r.st]

\* tool_function(**dict(function_call.args))
call_tool(f, args, st, orc) ==
    CASE f = "search_movie" -> search_movie(st, args.query, orc)
      [] f = "get_recommendations_by_genre" -> get_recommendations_by_genre(st, args.genres, orc)
      [] f = "get_similar_movies" -> get_similar_movies(st, args.title, orc)
      [] f = "get_trending_movies" -> get_trending_movies(st, Arg(args, "window"), orc)
      [] f = "get_top_rated_movies" -> get_top_rated_movies(st, orc)
      [] f = "get_movies_by_actor" ->
             Plain(get_movies_by_actor(st, args.name, Arg(args, "sort"), orc))
      [] f = "get_movies_by_director" ->
             Plain(get_movies_by_director(st, args.name, Arg(args, "sort"), orc))
      [] f = "get_movie_details" -> get_movie_details(st, args.movie_id, orc)
      [] f = "_resolve_person_id" -> resolve_person_id(st, args.name, orc)
      [] f = "get_genre_dict" -> get_genre_dict(st, orc)
      [] OTHER -> [val |-> EmptyList, st |-> st]

Greeting ==
    [role |-> "assistant",
     content |-> <<"Hello! I'm your movie-buff assistant. Ask me to find a movie by title or recommend something by genre!">>]

NothingFound == <<"Sorry, I couldn't find anything matching your request.">>

\* response_text left as it is initialised at line 113
response_text_unset(name) == <<"">>

\* response_text for a non-empty list result
response_text(name) ==
    CASE name = "get_recommendations_by_genre" -> <<"Of course! Here are some recommendations by genre:">>
      [] name = "get_similar_movies" -> <<"Got it! Here are movies similar to your request:">>
      [] name = "get_trending_movies" -> <<"Here are the trending movies right now:">>
      [] name = "get_top_rated_movies" -> <<"Here are top rated movies:">>
      [] name = "get_movies_by_actor" -> <<"Here are movies featuring that actor:">>
      [] name = "get_movies_by_director" -> <<"Here are movies directed by that person:">>
      [] OTHER -> <<"Of course! Here are some recommendations I found for you:">>

tool_not_found(name) == <<"Error: Could not find the tool '", name, "'.">>

\* overwrite the newest turn instead of extending the list
append_over_last(h, turn) == [h EXCEPT ![Len(h)] = turn]

\* st.session_state.chat_history.append(turn)
append_turn(h, turn) == Append(h, turn)

\* The exceptions the handler catches (line 146): a reply without candidates
\* or without parts raises IndexError, a stopped candidate raises
\* StopCandidateException.  Anything else send_message raises (a blocked
\* prompt, an API or network error) is not caught, nor is the TypeError of a
\* tool call whose arguments do not bind.
CaughtKinds == {"no_candidates", "no_parts", "stop_candidate"}
UncaughtKinds == {"blocked_prompt", "api_error"}

\* what a tool call of the handler returned and cost; NoToolCall when the
\* handler called no tool
NoToolCall ==
    [op |-> NoTool, key |-> <<>>, val |-> <<>>, reqs |-> 0, hits |-> 0, escaped |-> FALSE]
ToolCall(f, args, r) ==
    [op |-> f, key |-> args, val |-> r.val, reqs |-> r.st.reqs, hits |-> r.st.hits,
     escaped |-> r.st.escaped]

Outcome(h, tables, err, exc, call) ==
    [history |-> h, tables |-> tables, error_shown |-> err, raised |-> exc,
     invoked |-> call.op, call |-> call]

\* an assistant message that always carries the results key
assistant_message_with_results(name, tool_response) ==
    [role |-> "assistant",
     content |-> IF Truthy(tool_response) THEN response_text(name) ELSE NothingFound,
     results |-> tool_response]

\* lines 113-138: the narration of a tool result, with the results attached
\* when there are any
assistant_message(name, tool_response) ==
    IF Truthy(tool_response)
    THEN [role |-> "assistant", content |-> response_text(name), results |-> tool_response]
    ELSE [role |-> "assistant", content |-> NothingFound]

\* line 37, run at the top of every script run: a chat session that holds
\* no turns
start_chat == <<>>

\* chat.send_message(prompt): the request carries the turns the session
\* holds and the new message
send_message(chat, prompt) == Append(chat, [role |-> "user", content |-> <<prompt>>])

\* lines 105-144: the reply was received and has a first part
dispatch(h1, reply, orc) ==
    IF reply.kind = "text"
    THEN Outcome(append_turn(h1, [role |-> "assistant", content |-> <<reply.text>>]),
                 cache, FALSE, FALSE, NoToolCall)
    ELSE Bind(tool_function(reply.name), LAMBDA f :
         IF f = NoTool
         THEN Outcome(append_turn(h1, [role |-> "assistant",
                                       content |-> tool_not_found(reply.name)]),
                      cache, FALSE, FALSE, NoToolCall)
         ELSE IF ~Binds(f, reply.args) THEN Outcome(h1, cache, FALSE, TRUE, NoToolCall)
         ELSE Bind(call_tool(f, reply.args, Begin, orc), LAMBDA r :
              Outcome(append_turn(h1, assistant_message(reply.name, r.val)),
                      r.st.tables, FALSE, FALSE, ToolCall(f, reply.args, r))))

\* a handler whose except clause starts the conversation over
chat_logic_reset_on_error(prompt, reply, orc) ==
    IF reply.kind \in CaughtKinds
    THEN Outcome(<<Greeting, [role |-> "user", content |-> <<prompt>>]>>,
                 cache, TRUE, FALSE, NoToolCall)
    ELSE IF reply.kind \in UncaughtKinds
    THEN Outcome(append_turn(chat_history, [role |-> "user", content |-> <<prompt>>]),
                 cache, FALSE, TRUE, NoToolCall)
    ELSE dispatch(append_turn(chat_history, [role |-> "user", content |-> <<prompt>>]),
                  reply, orc)

\* lines 96-149: one submitted prompt
chat_logic(prompt, reply, orc) ==
    IF reply.kind \in CaughtKinds
    THEN Outcome(append_turn(chat_history, [role |-> "user", content |-> <<prompt>>]),
                 cache, TRUE, FALSE, NoToolCall)
    ELSE IF reply.kind \in UncaughtKinds
    THEN Outcome(append_turn(chat_history, [role |-> "user", content |-> <<prompt>>]),
                 cache, FALSE, TRUE, NoToolCall)
    ELSE dispatch(append_turn(chat_history, [role |-> "user", content |-> <<prompt>>]),
                  reply, orc)

-----------------------------------------------------------------------------
(* Observations kept beside the program state.                             *)

\* last: the last Metadata Client call. nth counts the calls since the last
\* cache clear (0 when the cache was cleared after the call), calls counts all
\* of them.
NoCall ==
    [op |-> "", key |-> <<>>, val |-> <<>>, reqs |-> 0, hits |-> 0, escaped |-> FALSE,
     time |-> 0, nth |-> 0, calls |-> 0]

\* first: per operation and argument, the result, time and number of the
\* first call since the last cache clear
NoFirst ==
    [get_movie_details |-> <<>>,
     search_movie |-> <<>>,
     get_recommendations_by_genre |-> <<>>,
     get_genre_dict |-> <<>>,
     get_similar_movies |-> <<>>,
     get_trending_movies |-> <<>>,
     get_top_rated_movies |-> <<>>,
     resolve_person_id |-> <<>>,
     get_movies_by_actor |-> <<>>,
     get_movies_by_director |-> <<>>]

NoMovie == <<>>
NoReply == [kind |-> "", text |-> "", name |-> "", args |-> <<>>]
NoGenres == [type |-> "list", value |-> <<>>]
NoPayload == <<>>
NoRequest == <<>>

\* the state a session starts in, whatever the specification studies
Start ==
    /\ API_KEY \in {"", "k"}
    /\ cache = EmptyCache
    /\ now = 0
    /\ chat_history = <<Greeting>>
    /\ selected_movie = NoMovie
    /\ error_shown = FALSE
    /\ raised = FALSE
    /\ invoked = NoTool
    /\ last_reply = NoReply
    /\ last = NoCall
    /\ first = NoFirst
    /\ last_picked = NothingPicked
    /\ sent = NoRequest

\* app.py lines 43-46: the sidebar button
ClearCachedData ==
    /\ cache' = Cleared
    /\ first' = NoFirst
    /\ last' = [last EXCEPT !.nth = 0]
    /\ UNCHANGED <<API_KEY, now, chat_history, selected_movie, error_shown, raised,
                   invoked, last_reply, genres_arg, genres_first, edits, payload, sent,
                   last_picked>>

-----------------------------------------------------------------------------
(* The chat session: prompts, the model's replies, the detail view.        *)

Prompts == {"find Dune"}

s_Al == <<"A","l">>
s_War == <<"W","a","r">>

FunctionCall(name, args) == [kind |-> "function_call", text |-> "", name |-> name, args |-> args]
Broken(kind) == [kind |-> kind, text |-> "", name |-> "", args |-> <<>>]

\* the shapes of reply the language model can give
ChatReplies ==
    <<[kind |-> "text", text |-> "Tell me a genre you like.", name |-> "", args |-> <<>>],
      FunctionCall("search_movie", [query |-> "Dune"]),
      FunctionCall("get_recommendations_by_genre",
                   [genres |-> [type |-> "list", value |-> <<s_War>>]]),
      FunctionCall("get_similar_movies", [title |-> "Dune"]),
      FunctionCall("get_trending_movies", <<>>),
      FunctionCall("get_top_rated_movies", <<>>),
      FunctionCall("get_movies_by_actor", [name |-> s_Al, sort |-> s_top_rated]),
      FunctionCall("get_movies_by_director", [name |-> s_Al]),
      FunctionCall("get_movie_details", [movie_id |-> 1]),
      FunctionCall("_resolve_person_id", [name |-> s_Al]),
      FunctionCall("book_tickets", <<>>),
      FunctionCall("search_movie", [title |-> "Dune"]),
      Broken("no_candidates"),
      Broken("no_parts"),
      Broken("stop_candidate"),
      Broken("blocked_prompt"),
      Broken("api_error")>>

ChatOracles == {OrcUp, OrcDetailsDown, OrcNothing, OrcDown}

\* app.py lines 96-149
Submit ==
    \E prompt \in Prompts, i \in 1..Len(ChatReplies), orc \in ChatOracles :
        /\ Len(chat_history) + 2 <= MaxTurns
        /\ \E o \in {chat_logic(prompt, ChatReplies[i], orc)} :
              /\ chat_history' = o.history
              /\ cache' = o.tables
              /\ error_shown' = o.error_shown
              /\ raised' = o.raised
              /\ invoked' = o.invoked
              /\ last' = IF o.invoked = NoTool THEN last
                         ELSE [op |-> o.call.op, key |-> o.call.key, val |-> o.call.val,
                               reqs |-> o.call.reqs, hits |-> o.call.hits,
                               escaped |-> o.call.escaped, time |-> now,
                               nth |-> last.nth + 1, calls |-> last.calls + 1]
        /\ last_reply' = ChatReplies[i]
        /\ sent' = send_message(start_chat, prompt)
        /\ UNCHANGED <<API_KEY, now, selected_movie, first, genres_arg,
                       genres_first, edits, payload, last_picked>>

\* app.py lines 66-77: a "Show Details" button under a rendered result
ShowDetails ==
    \E m \in 1..Len(chat_history) :
        /\ "results" \in DOMAIN chat_history[m]
        /\ \E i \in 1..Len(chat_history[m].results) :
              /\ Truthy(chat_history[m].results[i])
              /\ selected_movie' = chat_history[m].results[i]
        /\ UNCHANGED <<API_KEY, cache, now, chat_history, error_shown, raised, invoked,
                       last_reply, last, first, genres_arg, genres_first, edits,
                       payload, sent, last_picked>>

\* a "Back to Chat" that starts the conversation over
BackToChatNewSession ==
    /\ Truthy(selected_movie)
    /\ selected_movie' = NoMovie
    /\ chat_history' = <<Greeting>>
    /\ UNCHANGED <<API_KEY, cache, now, error_shown, raised, invoked,
                   last_reply, last, first, genres_arg, genres_first, edits,
                   payload, sent, last_picked>>

\* app.py lines 79-93: the "Back to Chat" button of the detail view
BackToChat ==
    /\ Truthy(selected_movie)
    /\ selected_movie' = NoMovie
    /\ UNCHANGED <<API_KEY, cache, now, chat_history, error_shown, raised, invoked,
                   last_reply, last, first, genres_arg, genres_first, edits,
                   payload, sent, last_picked>>

InitChat ==
    /\ Start
    /\ genres_arg = NoGenres
    /\ genres_first = NoGenres
    /\ edits = 0
    /\ payload = NoPayload

NextChat == Submit \/ ShowDetails \/ BackToChat \/ ClearCachedData

SpecChat == InitChat /\ [][NextChat]_vars

-----------------------------------------------------------------------------
(* One Metadata Client call observed: the tables it leaves, what it         *)
(* returned, how many requests it sent.                                    *)

Observed(op, key, r) ==
    /\ cache' = r.st.tables
    /\ last' = [op |-> op, key |-> key, val |-> r.val, reqs |-> r.st.reqs,
                hits |-> r.st.hits, escaped |-> r.st.escaped, time |-> now,
                nth |-> last.nth + 1, calls |-> last.calls + 1]
    /\ first' = IF key \in DOMAIN first[op] THEN first
                ELSE [first EXCEPT ![op] = (key :> [val |-> r.val, time |-> now,
                                                    call |-> last.calls + 1]) @@ @]

-----------------------------------------------------------------------------
(* get_recommendations_by_genre called with an argument, then once more    *)
(* with a variant of it that names the same genres: elements reordered,    *)
(* letters in the other case, blanks added or removed around a name.       *)

s_Drama == <<"D","r","a","m","a">>

GenreLists == {<<s_War>>, <<s_Drama, s_War>>}

GenreOracles == {OrcUp, OrcDown}

toggle_case(c) == IF IsUpper(c) THEN lower_char(c) ELSE upper_char(c)

RecommendFirst ==
    /\ last.nth = 0
    /\ \E orc \in GenreOracles :
          \E r \in {get_recommendations_by_genre(Begin, genres_first, orc)} :
             Observed("get_recommendations_by_genre", genres_first, r)
    /\ UNCHANGED <<API_KEY, now, chat_history, selected_movie, error_shown, raised,
                   invoked, last_reply, genres_arg, genres_first, edits,
                   payload, sent, last_picked>>

Varied(value) ==
    /\ last.nth = 1
    /\ edits < MaxEdits
    /\ edits' = edits + 1
    /\ genres_arg' = [genres_arg EXCEPT !.value = value]
    /\ UNCHANGED <<API_KEY, cache, now, chat_history, selected_movie, error_shown,
                   raised, invoked, last_reply, last, first, genres_first,
                   payload, sent, last_picked>>

\* two neighbouring elements change places
SwapGenres ==
    \E i \in 1..(Len(genres_arg.value) - 1) :
        Varied([genres_arg.value EXCEPT ![i] = genres_arg.value[i + 1],
                                        ![i + 1] = genres_arg.value[i]])

\* one letter of one name changes case
ChangeCase ==
    \E i \in 1..Len(genres_arg.value) : \E j \in 1..Len(genres_arg.value[i]) :
        /\ ~IsSpace(genres_arg.value[i][j])
        /\ Varied([genres_arg.value EXCEPT ![i][j] = toggle_case(@)])

\* a blank is added before or after one name
PadGenre ==
    \E i \in 1..Len(genres_arg.value) :
        \E padded \in {<<" ">> \o genres_arg.value[i], genres_arg.value[i] \o <<" ">>} :
            Varied([genres_arg.value EXCEPT ![i] = padded])

\* a blank is removed from the front of one name
TrimGenre ==
    \E i \in 1..Len(genres_arg.value) :
        /\ IsSpace(Head(genres_arg.value[i]))
        /\ Varied([genres_arg.value EXCEPT ![i] = Tail(@)])

RecommendAgain ==
    /\ last.nth = 1
    /\ \E orc \in GenreOracles :
          \E r \in {get_recommendations_by_genre(Begin, genres_arg, orc)} :
             Observed("get_recommendations_by_genre", genres_arg, r)
    /\ UNCHANGED <<API_KEY, now, chat_history, selected_movie, error_shown, raised,
                   invoked, last_reply, genres_arg, genres_first, edits,
                   payload, sent, last_picked>>

InitGenre ==
    /\ Start
    /\ genres_first \in {[type |-> "list", value |-> v] : v \in GenreLists}
    /\ genres_arg = genres_first
    /\ edits = 0
    /\ payload = NoPayload

NextGenre ==
    RecommendFirst \/ SwapGenres \/ ChangeCase \/ PadGenre \/ TrimGenre \/ RecommendAgain

SpecGenre == InitGenre /\ [][NextGenre]_vars

\* C3: a call of get_recommendations_by_genre whose argument differs from the
\* first call's only in element order, letter case or surrounding blanks uses
\* the first call's cache key: the cached implementation's table holds one
\* key, the call sends no request and returns the first call's value.
C3_SameKeyForSameGenres ==
    last.nth >= 2 =>
        /\ Cardinality(DOMAIN cache.cached_get_recommendations_by_genre) = 1
        /\ last.reqs = 0
        /\ last.val = first.get_recommendations_by_genre[genres_first].val

\* C3 witness: the argument of the second call is the first one reordered,
\* re-cased and padded, and the value served is a non-empty list
C3_Witness ==
    /\ last.nth >= 2
    /\ last.key = genres_arg
    /\ Len(genres_arg.value) = 2
    /\ genres_arg.value[1] # genres_first.value[1]
    /\ lower(genres_arg.value[1]) # lower(genres_first.value[1])
    /\ \E i \in 1..2 : \E j \in 1..Len(genres_arg.value[i]) :
          IsSpace(genres_arg.value[i][j])
    /\ \E i \in 1..2 : genres_arg.value[i] \notin
          {lower(genres_first.value[k]) : k \in 1..2} \cup {genres_first.value[k] : k \in 1..2}
    /\ Len(last.val) > 0

-----------------------------------------------------------------------------
(* The Metadata Client called directly.  A scenario S says what the calls  *)
(* are drawn from: S.oracles (the provider's answers), S.calls (how many   *)
(* calls a behaviour makes), S.names and S.sorts (by-person arguments).    *)

Queries == {"Dune"}
Windows == {<<>>, s_week}
\* the genres argument as a list of one name and as the bare name
GenreArgs == {[type |-> "list", value |-> <<s_War>>], [type |-> "str", value |-> s_War]}
DetailIds == {1}

MayCall(S) == last.calls < S.calls

Untouched ==
    UNCHANGED <<API_KEY, now, chat_history, selected_movie, error_shown, raised,
                invoked, last_reply, genres_arg, genres_first, edits, payload, sent>>

CallDetails(S) ==
    /\ MayCall(S)
    /\ \E id \in DetailIds, orc \in S.oracles :
          \E r \in {get_movie_details(Begin, id, orc)} :
             Observed("get_movie_details", id, r)
    /\ Untouched /\ UNCHANGED last_picked

CallSearch(S) ==
    /\ MayCall(S)
    /\ \E q \in Queries, orc \in S.oracles :
          \E r \in {search_movie(Begin, q, orc)} : Observed("search_movie", q, r)
    /\ Untouched /\ UNCHANGED last_picked

CallGenre(S) ==
    /\ MayCall(S)
    /\ \E g \in GenreArgs, orc \in S.oracles :
          \E r \in {get_recommendations_by_genre(Begin, g, orc)} :
             Observed("get_recommendations_by_genre", g, r)
    /\ Untouched /\ UNCHANGED last_picked

CallGenreDict(S) ==
    /\ MayCall(S)
    /\ \E orc \in S.oracles :
          \E r \in {get_genre_dict(Begin, orc)} : Observed("get_genre_dict", <<>>, r)
    /\ Untouched /\ UNCHANGED last_picked

CallSimilar(S) ==
    /\ MayCall(S)
    /\ \E t \in Queries, orc \in S.oracles :
          \E r \in {get_similar_movies(Begin, t, orc)} : Observed("get_similar_movies", t, r)
    /\ Untouched /\ UNCHANGED last_picked

CallTrending(S) ==
    /\ MayCall(S)
    /\ \E w \in Windows, orc \in S.oracles :
          \E r \in {get_trending_movies(Begin, w, orc)} : Observed("get_trending_movies", w, r)
    /\ Untouched /\ UNCHANGED last_picked

CallTopRated(S) ==
    /\ MayCall(S)
    /\ \E orc \in S.oracles :
          \E r \in {get_top_rated_movies(Begin, orc)} :
             Observed("get_top_rated_movies", <<>>, r)
    /\ Untouched /\ UNCHANGED last_picked

CallResolve(S) ==
    /\ MayCall(S)
    /\ \E n \in S.names, orc \in S.oracles :
          \E r \in {resolve_person_id(Begin, n, orc)} : Observed("resolve_person_id", n, r)
    /\ Untouched /\ UNCHANGED last_picked

CallActor(S) ==
    /\ MayCall(S)
    /\ \E n \in S.names, srt \in S.sorts, orc \in S.oracles :
          \E r \in {get_movies_by_actor(Begin, n, srt, orc)} :
             /\ Observed("get_movies_by_actor", <<n, srt>>, r)
             /\ last_picked' = r.picked
    /\ Untouched

CallDirector(S) ==
    /\ MayCall(S)
    /\ \E n \in S.names, srt \in S.sorts, orc \in S.oracles :
          \E r \in {get_movies_by_director(Begin, n, srt, orc)} :
             /\ Observed("get_movies_by_director", <<n, srt>>, r)
             /\ last_picked' = r.picked
    /\ Untouched

-----------------------------------------------------------------------------
(* The cache over time: calls in any order, while time passes and the      *)
(* cache is cleared now and then.                                          *)

CacheScenario ==
    [oracles |-> {OrcUp, OrcDown}, calls |-> MaxCalls,
     names |-> {s_Al, <<" ">>}, sorts |-> {s_top_rated}]

TickStep == 60 * 60 * 3

\* time passes
Tick ==
    /\ now + TickStep <= MaxTime
    /\ now' = now + TickStep
    /\ UNCHANGED <<API_KEY, cache, chat_history, selected_movie, error_shown, raised,
                   invoked, last_reply, last, first, genres_arg, genres_first, edits,
                   payload, sent, last_picked>>

InitCache ==
    /\ Start
    /\ genres_arg = NoGenres
    /\ genres_first = NoGenres
    /\ edits = 0
    /\ payload = NoPayload

NextCache ==
    \/ CallDetails(CacheScenario) \/ CallSearch(CacheScenario) \/ CallGenre(CacheScenario)
    \/ CallGenreDict(CacheScenario) \/ CallSimilar(CacheScenario)
    \/ CallTrending(CacheScenario) \/ CallTopRated(CacheScenario)
    \/ CallResolve(CacheScenario) \/ CallActor(CacheScenario) \/ CallDirector(CacheScenario)
    \/ ClearCachedData \/ Tick

SpecCache == InitCache /\ [][NextCache]_vars

-----------------------------------------------------------------------------
(* One call studied over the provider's answers: the answers are drawn     *)
(* when the behaviour starts and every request of the call gets them.      *)

Seqs(S, n) == UNION {[1..k -> S] : k \in 0..n}

\* the ids a list endpoint answers with: none, one, five, six, a repeated
\* id, an item without an id
ToolListings ==
    {<<>>, <<1>>, <<1, 2, 3, 4, 5>>, <<1, 2, 3, 4, 5, 6>>, <<6, 5, 4, 3, 2, 1>>,
     <<2, 2, 3>>, <<2, Missing, 3>>}

CreditsOf(ids, job) == [k \in 1..Len(ids) |-> Credit(ids[k], 100 - k, 600, 70, job)]

\* every list endpoint answers with ids, the detail requests of F fail
ToolOracle(ids, F) ==
    [search      |-> Ok(Listing(ids)),
     similar     |-> Ok(Listing(ids)),
     discover    |-> Ok(Listing(ids)),
     trending    |-> [day |-> Ok(Listing(ids)), week |-> Ok(Listing(ids))],
     top_rated   |-> Ok(Listing(ids)),
     genres      |-> Ok(GenreList),
     person      |-> Ok(<<Item(9, 3)>>),
     credits     |-> [ok |-> TRUE, cast |-> CreditsOf(ids, <<>>),
                      crew |-> CreditsOf(ids, job_Director)],
     detail_fail |-> F,
     failure     |-> "http"]

Endpoints ==
    {"search", "similar", "discover", "trending", "top_rated", "genres", "person", "credits"}

Answer(endpoint, down, results) == IF endpoint \in down THEN Fail ELSE Ok(results)

\* the requests to the endpoints of down and the detail requests of F fail,
\* all in the way of kind; the other requests are answered with three movies
FailingOracle(kind, down, F) ==
    [search      |-> Answer("search", down, Listing(<<1, 2, 3>>)),
     similar     |-> Answer("similar", down, Listing(<<1, 2, 3>>)),
     discover    |-> Answer("discover", down, Listing(<<1, 2, 3>>)),
     trending    |-> [day |-> Answer("trending", down, Listing(<<1, 2, 3>>)),
                      week |-> Answer("trending", down, Listing(<<1, 2, 3>>))],
     top_rated   |-> Answer("top_rated", down, Listing(<<1, 2, 3>>)),
     genres      |-> Answer("genres", down, GenreList),
     person      |-> Answer("person", down, <<Item(9, 3)>>),
     credits     |-> IF "credits" \in down THEN CreditsDown
                     ELSE [ok |-> TRUE, cast |-> CreditsOf(<<1, 2, 3>>, <<>>),
                           crew |-> CreditsOf(<<1, 2, 3>>, job_Director)],
     detail_fail |-> F,
     failure     |-> kind]

FailingOracles ==
    {FailingOracle(kind, down, F) :
        kind \in FailureKinds, down \in SUBSET Endpoints, F \in {{}, {2}, MovieIds}}

\* a search answer in the provider's order of relevance: the sixth item is
\* the most popular, the second the most popular of the first five
ByRelevance ==
    <<Item(1, 10), Item(2, 30), Item(3, 20), Item(4, 5), Item(5, 1), Item(6, 90)>>

\* the movie search and the person search answer with ByRelevance
OrcByRelevance == [OrcUp EXCEPT !.search = Ok(ByRelevance), !.person = Ok(ByRelevance)]

ToolOracles ==
    {ToolOracle(ids, F) : ids \in ToolListings, F \in SUBSET MovieIds}
    \cup {OrcDown, OrcByRelevance} \cup FailingOracles

ToolScenario ==
    [oracles |-> {payload}, calls |-> 1, names |-> {s_Al}, sorts |-> {s_popularity}]

InitTools ==
    /\ Start
    /\ genres_arg = NoGenres
    /\ genres_first = NoGenres
    /\ edits = 0
    /\ payload \in ToolOracles

NextTools ==
    \/ CallDetails(ToolScenario) \/ CallSearch(ToolScenario) \/ CallGenre(ToolScenario)
    \/ CallGenreDict(ToolScenario) \/ CallSimilar(ToolScenario)
    \/ CallTrending(ToolScenario) \/ CallTopRated(ToolScenario)
    \/ CallResolve(ToolScenario) \/ CallActor(ToolScenario) \/ CallDirector(ToolScenario)

SpecTools == InitTools /\ [][NextTools]_vars

ListTools ==
    {"get_recommendations_by_genre", "get_similar_movies", "get_trending_movies",
     "get_top_rated_movies", "get_movies_by_actor", "get_movies_by_director"}

\* C7: whatever the provider answers, search_movie returns at most one
\* record and each of the six list tools returns between 0 and 5 records.
C7_ResultSizes ==
    /\ last.op = "search_movie" => Len(last.val) <= 1
    /\ last.op \in ListTools => Len(last.val) \in 0..5

\* six trending movies of which the second has no details: four are returned
C7_Witness ==
    /\ last.op = "get_trending_movies"
    /\ payload.trending.day.ok
    /\ Len(payload.trending.day.results) = 6
    /\ payload.detail_fail = {2}
    /\ Len(last.val) = 4

-----------------------------------------------------------------------------
(* The by-person tools over the person's credits.                          *)

job_DIRECTOR == <<"D","I","R","E","C","T","O","R">>
s_Top_Rated == <<"T","o","p","_","R","a","t","e","d">>
s_TOP_RATED == <<"T","O","P","_","R","A","T","E","D">>

\* <<vote_count, vote_average>> of a credit; Missing is an absent or null field
VotePairs == {<<Missing, 90>>, <<499, 80>>, <<500, 70>>, <<500, Missing>>, <<900, 90>>}

\* the k-th credit is of movie k and has the k-th votes
VotedCredits(vs, job) == [k \in 1..Len(vs) |-> Credit(k, k, vs[k][1], vs[k][2], job)]

VotesOracle(vs) ==
    [OrcUp EXCEPT !.credits = [ok |-> TRUE, cast |-> VotedCredits(vs, <<>>),
                               crew |-> VotedCredits(vs, job_Director)]]

Jobs == {job_Director, job_DIRECTOR, job_Producer, <<>>}

\* crew credits <<movie, job>> on movies 1 and 2; cast credits on movies 1 and 3
JobsOracle(cs) ==
    [OrcUp EXCEPT !.credits =
        [ok |-> TRUE,
         cast |-> <<Credit(3, 9, 600, 70, <<>>), Credit(1, 8, 600, 70, <<>>)>>,
         crew |-> [k \in 1..Len(cs) |-> Credit(cs[k][1], k, 600, 70, cs[k][2])]]]

PersonOracles ==
    {VotesOracle(vs) : vs \in Seqs(VotePairs, MaxCredits)} \cup
    {JobsOracle(cs) : cs \in Seqs({1, 2} \X Jobs, MaxCrew)}

PersonScenario ==
    [oracles |-> {payload}, calls |-> 1, names |-> {s_Al},
     sorts |-> {s_top_rated, s_Top_Rated, s_TOP_RATED, s_popularity}]

InitPerson ==
    /\ Start
    /\ genres_arg = NoGenres
    /\ genres_first = NoGenres
    /\ edits = 0
    /\ payload \in PersonOracles

NextPerson == CallActor(PersonScenario) \/ CallDirector(PersonScenario)

SpecPerson == InitPerson /\ [][NextPerson]_vars

ByPerson == {"get_movies_by_actor", "get_movies_by_director"}

TopRatedSpellings == {s_top_rated, s_Top_Rated, s_TOP_RATED}

BelowThreshold(m) == m.vote_count = Missing \/ m.vote_count < 500
AverageOf(m) == IF m.vote_average = Missing THEN 0 ELSE m.vote_average

\* C8: with sort top_rated in any letter case, the order the by-person
\* tools pick from never has a credit with vote_count below 500 or missing
\* before one with vote_count at least 500, and credits on the same side
\* of the threshold are in descending order of vote_average.
C8_TopRatedOrder ==
    (last.op \in ByPerson /\ last.key[2] \in TopRatedSpellings) =>
        \A i, j \in 1..Len(last_picked.ranked) :
            i < j =>
                LET a == last_picked.ranked[i]
                    b == last_picked.ranked[j]
                IN  /\ ~(BelowThreshold(a) /\ ~BelowThreshold(b))
                    /\ BelowThreshold(a) = BelowThreshold(b)
                          => AverageOf(a) >= AverageOf(b)

\* sort spelled Top_Rated; a credit above the threshold is ranked before a
\* better rated credit below it, and two credits above it by their average
C8_Witness ==
    /\ last.op = "get_movies_by_actor"
    /\ last.key[2] = s_Top_Rated
    /\ Len(last_picked.ranked) >= 3
    /\ Len(last.val) >= 3
    /\ ~BelowThreshold(last_picked.ranked[1])
    /\ ~BelowThreshold(last_picked.ranked[2])
    /\ AverageOf(last_picked.ranked[1]) > AverageOf(last_picked.ranked[2])
    /\ BelowThreshold(last_picked.ranked[3])
    /\ last_picked.ranked[3].vote_count = 499
    /\ AverageOf(last_picked.ranked[3]) > AverageOf(last_picked.ranked[2])

DirectorSpellings == {s_director, job_Director, job_DIRECTOR}

HasDirectorCredit(id) ==
    \E i \in 1..Len(payload.credits.crew) :
        /\ payload.credits.crew[i].id = id
        /\ payload.credits.crew[i].job \in DirectorSpellings

\* C9: get_movies_by_director requests details for, and returns, only
\* movies on which the person has a crew credit whose job is director in
\* some letter case; movies with only other crew credits or only cast
\* credits are never in the result.
C9_OnlyDirected ==
    last.op = "get_movies_by_director" =>
        /\ \A k \in 1..Len(last_picked.top_ids) : HasDirectorCredit(last_picked.top_ids[k])
        /\ \A k \in 1..Len(last.val) : HasDirectorCredit(last.val[k].id)

\* the person produced movie 1, directed movie 2 (job DIRECTOR) and acted
\* in movie 3: movie 2 alone is returned
C9_Witness ==
    /\ last.op = "get_movies_by_director"
    /\ \E i \in 1..Len(payload.credits.crew) :
          payload.credits.crew[i].id = 1 /\ payload.credits.crew[i].job = job_Producer
    /\ \E i \in 1..Len(payload.credits.crew) :
          payload.credits.crew[i].id = 2 /\ payload.credits.crew[i].job = job_DIRECTOR
    /\ ~HasDirectorCredit(1)
    /\ \E i \in 1..Len(payload.credits.cast) : payload.credits.cast[i].id = 3
    /\ Len(last.val) = 1
    /\ last.val[1].id = 2

-----------------------------------------------------------------------------
(* Properties of the cache.                                                *)

\* the ttl of the memo that answers a repeated call of operation op
ttl_of(op) ==
    CASE op = "get_movie_details" -> TTL_get_movie_details
      [] op = "search_movie" -> TTL_search_movie
      [] op = "get_recommendations_by_genre" -> TTL_cached_get_recommendations_by_genre
      [] op = "get_genre_dict" -> TTL_get_genre_dict
      [] op = "get_similar_movies" -> TTL_get_similar_movies
      [] op = "get_trending_movies" -> TTL_get_trending_movies
      [] op = "get_top_rated_movies" -> TTL_get_top_rated_movies
      [] op = "resolve_person_id" -> TTL_resolve_person_id
      [] op = "get_movies_by_actor" -> TTL_get_movies_by_actor
      [] op = "get_movies_by_director" -> TTL_get_movies_by_director

\* the last call repeats an earlier call made since the cache was last
\* cleared (same operation, same arguments), within the operation's ttl
RepeatedWithinTTL ==
    /\ last.nth >= 2
    /\ last.key \in DOMAIN first[last.op]
    /\ first[last.op][last.key].call < last.calls
    /\ last.time - first[last.op][last.key].time < ttl_of(last.op)

\* C4: after the cache is cleared, a call that repeats an earlier call of
\* the same operation with the same arguments within the operation's ttl
\* returns the result of that earlier call and sends no provider request.
C4_RepeatedCallServedFromCache ==
    RepeatedWithinTTL =>
        /\ last.val = first[last.op][last.key].val
        /\ last.reqs = 0

\* a search answered with a movie, repeated three hours later
C4_Witness ==
    /\ RepeatedWithinTTL
    /\ last.op = "search_movie"
    /\ first.search_movie[last.key].time < last.time
    /\ Len(last.val) = 1
    /\ Truthy(last.val[1])

\* the operations that return without a request although a key is set:
\* a by-person call whose name is blank
BlankName(name) == strip(name) = <<>>

NeedsNoProvider ==
    \/ last.op = "resolve_person_id" /\ BlankName(last.key)
    \/ last.op \in {"get_movies_by_actor", "get_movies_by_director"} /\ BlankName(last.key[1])

\* C5: clearing the cache empties every memo table, so the first call
\* after a clear is served nothing that was stored before the clear and,
\* when it needs the provider at all, sends a request to it.
C5_ClearEmptiesEveryTable ==
    /\ last.nth = 0 => cache = EmptyCache
    /\ last.nth = 1 => last.hits = 0
    /\ (last.nth = 1 /\ API_KEY # "" /\ ~NeedsNoProvider) => last.reqs >= 1

\* a call, a clear, then an actor call that asks for the person, the
\* credits and the details again
C5_Witness ==
    /\ last.calls = 2
    /\ last.nth = 1
    /\ last.op = "get_movies_by_actor"
    /\ last.hits = 0
    /\ last.reqs >= 3
    /\ Len(last.val) >= 1

\* the empty value of the operation's kind: None, {} or []
EmptyOf(op) == IF op = "resolve_person_id" THEN None ELSE <<>>

\* C6: with an empty API key every Metadata Client operation returns the
\* empty value of its kind and sends no provider request.
C6_NoKeyNoRequest ==
    (API_KEY = "" /\ last.calls >= 1) =>
        /\ last.val = EmptyOf(last.op)
        /\ last.reqs = 0

\* a director call without a key, after another call without a key
C6_Witness ==
    /\ API_KEY = ""
    /\ last.calls = 2
    /\ last.op = "get_movies_by_director"
    /\ last.val = <<>>
    /\ last.reqs = 0

-----------------------------------------------------------------------------
(* Properties of the chat session.                                         *)

\* the seven names app.py registers (lines 15-23)
SevenTools ==
    {"search_movie", "get_recommendations_by_genre", "get_similar_movies",
     "get_trending_movies", "get_top_rated_movies", "get_movies_by_actor",
     "get_movies_by_director"}

\* C1: every submitted message extends chat_history by exactly one user turn
\* followed by exactly one assistant turn, whatever the model's reply was (a
\* malformed, blocked or failed reply included).
C1_UserTurnThenAssistantTurn ==
    [][chat_history' # chat_history =>
          /\ Len(chat_history') = Len(chat_history) + 2
          /\ chat_history'[Len(chat_history) + 1].role = "user"
          /\ chat_history'[Len(chat_history) + 2].role = "assistant"]_vars

\* C2: a function call naming none of the seven registered tools invokes no
\* tool, sends nothing to the provider, raises nothing, and appends, after the
\* user turn, exactly one assistant turn whose content contains that name.
C2_UnknownToolNamed ==
    [][(/\ chat_history' # chat_history
        /\ last_reply'.kind = "function_call"
        /\ last_reply'.name \notin SevenTools)
       => /\ invoked' = NoTool
          /\ cache' = cache
          /\ ~raised'
          /\ Len(chat_history') = Len(chat_history) + 2
          /\ chat_history'[Len(chat_history) + 1].role = "user"
          /\ chat_history'[Len(chat_history) + 2].role = "assistant"
          /\ \E k \in 1..Len(chat_history'[Len(chat_history) + 2].content) :
                chat_history'[Len(chat_history) + 2].content[k] = last_reply'.name]_vars

\* C2 witness: the model asked for get_movie_details, which helpers.py defines
\* and app.py does not register, and the error turn naming it is the newest turn
C2_Witness ==
    /\ last_reply.kind = "function_call"
    /\ last_reply.name = "get_movie_details"
    /\ Len(chat_history) >= 3
    /\ chat_history[Len(chat_history)].content = tool_not_found("get_movie_details")
    /\ chat_history[Len(chat_history) - 1].role = "user"

\* C10: chat_history only grows at its end, every turn in it stays what it
\* was, and its first turn is the seeded greeting.
C10_AppendOnly ==
    /\ [](chat_history[1] = Greeting)
    /\ [][/\ Len(chat_history') >= Len(chat_history)
          /\ SubSeq(chat_history', 1, Len(chat_history)) = chat_history]_vars

\* C10 witness: two messages were answered, one of them with results, a movie
\* is selected and the cache has been cleared since
C10_Witness ==
    /\ Len(chat_history) >= 5
    /\ \E m \in 1..Len(chat_history) : "results" \in DOMAIN chat_history[m]
    /\ Truthy(selected_movie)
    /\ cache = EmptyCache

\* the newest turn of the history
Newest == chat_history[Len(chat_history)]

\* C11: when the registered tool the handler called returned an empty
\* result, the turn appended after the user turn is an assistant turn whose
\* content is the fixed apology and which has no results key, whichever
\* tool it was.
C11_EmptyResultApology ==
    (invoked # NoTool /\ ~Truthy(last.val)) =>
        /\ invoked \in SevenTools
        /\ Newest.role = "assistant"
        /\ Newest.content = <<"Sorry, I couldn't find anything matching your request.">>
        /\ "results" \notin DOMAIN Newest
        /\ chat_history[Len(chat_history) - 1].role = "user"

\* the director tool found nothing after an earlier message was answered
\* with results
C11_Witness ==
    /\ invoked = "get_movies_by_director"
    /\ last.val = <<>>
    /\ last.reqs >= 1
    /\ Len(chat_history) = 5
    /\ "results" \in DOMAIN chat_history[3]
    /\ Newest.content = NothingFound

\* C12: in every history a turn has a results key only if it is an
\* assistant turn with non-empty narration whose results are a sequence of
\* 1 to 5 records; a turn gets the key only when a registered tool was
\* called and returned a non-empty result, which is then the results; a
\* plain-text reply, an unknown tool and an empty tool result give a turn
\* without the key.
C12_ResultsOnlyFromTools ==
    /\ [](\A m \in 1..Len(chat_history) :
             "results" \in DOMAIN chat_history[m] =>
                 /\ chat_history[m].role = "assistant"
                 /\ DOMAIN chat_history[m].results = 1..Len(chat_history[m].results)
                 /\ Len(chat_history[m].results) \in 1..5
                 /\ chat_history[m].content \notin {<<>>, <<"">>})
    /\ [][chat_history' # chat_history =>
             /\ "results" \in DOMAIN chat_history'[Len(chat_history')] =>
                    /\ invoked' \in SevenTools
                    /\ Truthy(last'.val)
                    /\ chat_history'[Len(chat_history')].results = last'.val
             /\ (\/ last_reply'.kind = "text"
                 \/ last_reply'.kind = "function_call" /\ last_reply'.name \notin SevenTools
                 \/ invoked' # NoTool /\ ~Truthy(last'.val))
                => /\ chat_history'[Len(chat_history')].role = "assistant"
                   /\ "results" \notin DOMAIN chat_history'[Len(chat_history')]]_vars

\* a trending call answered with five movies, then a plain-text reply
C12_Witness ==
    /\ Len(chat_history) = 5
    /\ "results" \in DOMAIN chat_history[3]
    /\ Len(chat_history[3].results) = 5
    /\ chat_history[3].content = response_text("get_trending_movies")
    /\ last_reply.kind = "text"
    /\ "results" \notin DOMAIN chat_history[5]

\* C13: no Metadata Client operation lets an exception leave it: whichever
\* of its requests fail (search or list request, person or genre lookup,
\* any of the detail requests) and however they fail (HTTP error, network
\* error, a body that is not JSON), the operation returns, and when its own
\* lookup or list request failed it returns [], {} or None.
C13_NoExceptionEscapes ==
    last.calls >= 1 =>
        /\ ~last.escaped
        /\ (last.op = "get_movie_details" /\ last.key \in payload.detail_fail)
              => last.val = <<>>
        /\ (last.op = "get_genre_dict" /\ ~payload.genres.ok) => last.val = <<>>
        /\ (last.op = "resolve_person_id" /\ ~payload.person.ok) => last.val = None
        /\ (last.op = "search_movie" /\ ~payload.search.ok) => last.val = <<>>
        /\ (last.op = "get_similar_movies" /\ (~payload.search.ok \/ ~payload.similar.ok))
              => last.val = <<>>
        /\ (last.op = "get_recommendations_by_genre"
               /\ (~payload.genres.ok \/ ~payload.discover.ok)) => last.val = <<>>
        /\ (last.op = "get_trending_movies" /\ ~payload.trending.day.ok) => last.val = <<>>
        /\ (last.op = "get_top_rated_movies" /\ ~payload.top_rated.ok) => last.val = <<>>
        /\ (last.op \in ByPerson /\ (~payload.person.ok \/ ~payload.credits.ok))
              => last.val = <<>>

\* the person and the credits are found, the detail request of the second
\* of three movies gets a body that is not JSON: two movies are returned
C13_Witness ==
    /\ last.op = "get_movies_by_actor"
    /\ payload.failure = "json"
    /\ payload.person.ok
    /\ payload.credits.ok
    /\ ~payload.search.ok
    /\ payload.detail_fail = {2}
    /\ last.reqs = 5
    /\ Len(last.val) = 2
    /\ ~last.escaped

\* an error of one of the five kinds occurred in the last run of the chat
\* handler: a malformed reply (caught), a blocked reply or a call that does
\* not bind (not caught), an unknown tool name, or a tool that came back
\* empty (no provider key, a failed request, nothing resolved)
ErrorOccurred ==
    \/ error_shown
    \/ raised
    \/ last_reply.kind = "function_call" /\ last_reply.name \notin SevenTools
    \/ invoked # NoTool /\ ~Truthy(last.val)

\* C14: a run of the handler that ends in an error keeps the turns that
\* were there; after it the next message can be submitted, and its run
\* appends the user turn and, for a well-formed reply, the assistant turn
\* of that reply.
C14_UsableAfterError ==
    /\ [][(ErrorOccurred' /\ chat_history' # chat_history) =>
             /\ Len(chat_history') > Len(chat_history)
             /\ SubSeq(chat_history', 1, Len(chat_history)) = chat_history]_vars
    /\ [](ErrorOccurred /\ Len(chat_history) + 2 <= MaxTurns => ENABLED Submit)
    /\ [][(ErrorOccurred /\ chat_history' # chat_history) =>
             /\ chat_history'[Len(chat_history) + 1].role = "user"
             /\ last_reply'.kind = "text" =>
                    /\ Len(chat_history') = Len(chat_history) + 2
                    /\ chat_history'[Len(chat_history')] =
                          [role |-> "assistant", content |-> <<last_reply'.text>>]
             /\ (last_reply'.kind = "function_call" /\ ~raised') =>
                    /\ Len(chat_history') = Len(chat_history) + 2
                    /\ chat_history'[Len(chat_history')].role = "assistant"]_vars

\* the first message got a malformed reply and left no assistant turn; the
\* second was answered with results
C14_Witness ==
    /\ Len(chat_history) = 4
    /\ chat_history[2].role = "user"
    /\ chat_history[3].role = "user"
    /\ chat_history[4].role = "assistant"
    /\ "results" \in DOMAIN chat_history[4]
    /\ ~ErrorOccurred

\* the index of the newest user turn of the history
NewestUserTurn ==
    CHOOSE n \in 1..Len(chat_history) :
        /\ chat_history[n].role = "user"
        /\ \A k \in (n + 1)..Len(chat_history) : chat_history[k].role # "user"

\* C15: the request sent to the language model for a user message carries
\* the conversation before it: every earlier user message of the session
\* that was answered is one of the turns of the request, ahead of the new
\* message.
C15_RequestCarriesHistory ==
    sent # NoRequest =>
        /\ sent[Len(sent)] = chat_history[NewestUserTurn]
        /\ \A m \in 1..(NewestUserTurn - 1) :
              (chat_history[m].role = "user" /\ chat_history[m + 1].role = "assistant")
                 => \E k \in 1..(Len(sent) - 1) : sent[k] = chat_history[m]

-----------------------------------------------------------------------------
(* Expiry: calls spread over a day, the cache never cleared.  Entries age  *)
(* past the 6 h, 12 h and 24 h time-to-live in steps that do not fall on   *)
(* them.                                                                   *)

ExpiryScenario ==
    [oracles |-> {OrcUp, OrcDown}, calls |-> MaxCalls, names |-> {s_Al},
     sorts |-> {s_top_rated}]

AgeStep == 60 * 60 * 5

\* five hours pass
Elapse ==
    /\ now + AgeStep <= MaxAge
    /\ now' = now + AgeStep
    /\ UNCHANGED <<API_KEY, cache, chat_history, selected_movie, error_shown, raised,
                   invoked, last_reply, last, first, genres_arg, genres_first, edits,
                   payload, sent, last_picked>>

NextExpiry ==
    \/ CallDetails(ExpiryScenario) \/ CallSearch(ExpiryScenario) \/ CallGenre(ExpiryScenario)
    \/ CallGenreDict(ExpiryScenario) \/ CallSimilar(ExpiryScenario)
    \/ CallTrending(ExpiryScenario) \/ CallTopRated(ExpiryScenario)
    \/ CallResolve(ExpiryScenario) \/ CallActor(ExpiryScenario)
    \/ CallDirector(ExpiryScenario) \/ Elapse

SpecExpiry == InitCache /\ [][NextExpiry]_vars

\* the memo table and the key behind a call of operation op with argument key
table_of(op) ==
    IF op = "get_recommendations_by_genre" THEN "cached_get_recommendations_by_genre" ELSE op
key_of(op, key) == IF op = "get_recommendations_by_genre" THEN normalized(key) ELSE key

\* the operations whose body starts with a request of its own
DirectOps ==
    {"get_movie_details", "search_movie", "get_genre_dict", "get_similar_movies",
     "get_trending_movies", "get_top_rated_movies", "resolve_person_id"}

\* C16: a call that finds its entry older than the function's time-to-live
\* is not served from it: the body runs again (for the operations that
\* start with a request of their own, the provider is asked) and the entry
\* is replaced by the new value, stored at the time of the call. Nothing
\* but the call itself removes the old entry.
C16_ExpiredEntryRecomputed ==
    [][(/\ last'.calls = last.calls + 1
        /\ key_of(last'.op, last'.key) \in DOMAIN cache[table_of(last'.op)]
        /\ now - cache[table_of(last'.op)][key_of(last'.op, last'.key)].time
              > ttl_of(last'.op))
       => /\ cache'[table_of(last'.op)][key_of(last'.op, last'.key)] =
                [value |-> last'.val, time |-> now]
          /\ (API_KEY # "" /\ last'.op \in DirectOps) => last'.reqs >= 1]_vars

\* movie details fetched at 0 h and asked for again at 15 h: one request,
\* and the record returned and stored is the one fetched at 15 h
C16_Witness ==
    /\ last.op = "get_movie_details"
    /\ last.nth = 2
    /\ first.get_movie_details[last.key].time = 0
    /\ Truthy(first.get_movie_details[last.key].val)
    /\ last.time = 3 * AgeStep
    /\ last.reqs = 1
    /\ Truthy(last.val)
    /\ last.val.fetched = last.time
    /\ cache.get_movie_details[last.key] = [value |-> last.val, time |-> last.time]

-----------------------------------------------------------------------------
(* Sorting and truncation.                                                 *)

\* item j of results is at least as popular as every item of results
MostPopularOfAll(results, j) ==
    \A i \in 1..Len(results) : OrZero(results[i].popularity) <= OrZero(results[j].popularity)

\* the id chosen is that of a most popular item of all the results
BestOfAll(results, id) ==
    \E j \in 1..Len(results) : results[j].id = id /\ MostPopularOfAll(results, j)

\* search_movie returned the details of the most popular search result
SearchPicksBestOfAll ==
    (/\ last.op = "search_movie"
     /\ Len(last.val) = 1
     /\ Truthy(last.val[1])) => BestOfAll(payload.search.results, last.val[1].id)

\* the person resolved is the most popular of the person search results
ResolvePicksBestOfAll ==
    (last.op = "resolve_person_id" /\ last.val # None)
        => BestOfAll(payload.person.results, last.val)

\* the credits the by-person tool of the last call chooses from
CreditsOfLast ==
    IF last.op = "get_movies_by_actor" THEN payload.credits.cast
    ELSE SelectSeq(payload.credits.crew, LAMBDA c : c.job \in DirectorSpellings)

\* by popularity, the ids chosen are the first five of a list that holds
\* every credited id once, most popular first
PersonPicksAfterSort ==
    (last.op \in ByPerson /\ last_picked # NothingPicked /\ last.key[2] = s_popularity) =>
        /\ last_picked.top_ids =
              [k \in 1..Len(Take(last_picked.ranked, 5)) |-> last_picked.ranked[k].id]
        /\ \A i, j \in 1..Len(last_picked.ranked) :
              i < j => /\ last_picked.ranked[i].id # last_picked.ranked[j].id
                       /\ OrZero(last_picked.ranked[i].popularity)
                             >= OrZero(last_picked.ranked[j].popularity)
        /\ \A i \in 1..Len(CreditsOfLast) :
              CreditsOfLast[i].id # Missing =>
                  \E k \in 1..Len(last_picked.ranked) :
                      last_picked.ranked[k].id = CreditsOfLast[i].id

\* C17: truncation to five happens only after sorting over all the
\* candidates: the by-person tools choose the first five of the sorted,
\* id-deduplicated credits, and the best match of search_movie and of the
\* person resolution is the most popular of all the results returned by the
\* search.
C17_TruncateAfterSort ==
    /\ PersonPicksAfterSort
    /\ SearchPicksBestOfAll
    /\ ResolvePicksBestOfAll

-----------------------------------------------------------------------------
(* The genres argument given as a bare string.                             *)

\* the one-element list holding the bare string g
one_element_list(g) == [type |-> "list", value |-> <<g.value>>]

\* C18: a call of get_recommendations_by_genre with a bare string is keyed
\* as the call with the one-element list of that string, so its result is
\* the entry of that key in the memo of the cached function.
C18_BareStringIsOneGenre ==
    (last.op = "get_recommendations_by_genre" /\ last.key.type = "str") =>
        /\ normalized(last.key) = normalized(one_element_list(last.key))
        /\ normalized(one_element_list(last.key))
              \in DOMAIN cache.cached_get_recommendations_by_genre
        /\ cache.cached_get_recommendations_by_genre[
              normalized(one_element_list(last.key))].value = last.val

-----------------------------------------------------------------------------
(* What the tools return when detail requests fail.                        *)

\* a Movie record that is not empty and has an id and a title
Populated(m) == Truthy(m) /\ {"id", "title"} \subseteq DOMAIN m

\* C19: every element of a sequence returned by a tool is a populated Movie
\* record; a search_movie call whose title search answers and whose detail
\* request fails returns the empty sequence.
C19_OnlyPopulatedMovies ==
    last.op \in SevenTools =>
        /\ \A k \in 1..Len(last.val) : Populated(last.val[k])
        /\ (/\ last.op = "search_movie"
            /\ payload.search.ok
            /\ payload.search.results # <<>>
            /\ best_match_id(payload.search.results) \in payload.detail_fail)
           => last.val = EmptyList

-----------------------------------------------------------------------------
(* The detail view.                                                        *)

\* movie is an element of the results of an assistant turn of history
InResultsOf(history, movie) ==
    \E m \in 1..Len(history) :
        /\ history[m].role = "assistant"
        /\ "results" \in DOMAIN history[m]
        /\ \E i \in 1..Len(history[m].results) : history[m].results[i] = movie

\* C20: the selected item is absent or a populated Movie of the results of
\* some assistant turn of the history; a step that sets or clears it ("Show
\* Details", "Back to Chat") leaves chat_history unchanged, and a step that
\* changes chat_history (a submitted message) leaves it unchanged.
C20_SelectionFrame ==
    /\ [](Truthy(selected_movie) => InResultsOf(chat_history, selected_movie))
    /\ [][selected_movie' # selected_movie => chat_history' = chat_history]_vars
    /\ [][chat_history' # chat_history => selected_movie' = selected_movie]_vars

\* a movie of the first answer is on show while the history has grown by a
\* second exchange
C20_Witness ==
    /\ Truthy(selected_movie)
    /\ Len(chat_history) = 5
    /\ "results" \in DOMAIN chat_history[3]
    /\ \E i \in 1..Len(chat_history[3].results) : chat_history[3].results[i] = selected_movie
    /\ chat_history[4].role = "user"
    /\ chat_history[5].role = "assistant"

-----------------------------------------------------------------------------
(* Results of failed calls in the cache.                                   *)

\* the entry behind the last call, in the memo of its operation
EntryOfLast == cache[table_of(last.op)][key_of(last.op, last.key)]

\* C21: the empty result of a failed call is memoized like any other: a
\* repeat of the call within the operation's ttl, with no cache clear in
\* between, returns the same empty result from the entry that answered or
\* was stored by the first call, not from a newer one, and sends no
\* request, whatever the provider would answer by then; a call sends
\* requests only when its entry is absent (never stored, or cleared) or
\* expired.
C21_FailureMemoized ==
    /\ []((RepeatedWithinTTL /\ first[last.op][last.key].val = EmptyOf(last.op)) =>
             /\ last.val = EmptyOf(last.op)
             /\ last.reqs = 0
             /\ key_of(last.op, last.key) \in DOMAIN cache[table_of(last.op)]
             /\ EntryOfLast.value = EmptyOf(last.op)
             /\ EntryOfLast.time <= first[last.op][last.key].time)
    /\ [][(last'.calls = last.calls + 1 /\ last'.reqs >= 1) =>
             ~(/\ key_of(last'.op, last'.key) \in DOMAIN cache[table_of(last'.op)]
               /\ now - cache[table_of(last'.op)][key_of(last'.op, last'.key)].time
                     < ttl_of(last'.op))]_vars

\* with a key set, a search that failed at 0 h is repeated at 3 h: the
\* empty list comes from the entry of 0 h, without a request, and so it
\* does from a provider that answers again, whose search would find a movie
C21_Witness ==
    /\ API_KEY # ""
    /\ RepeatedWithinTTL
    /\ last.op = "search_movie"
    /\ first.search_movie[last.key].val = EmptyList
    /\ first.search_movie[last.key].time = 0
    /\ last.time = TickStep
    /\ last.val = EmptyList
    /\ last.reqs = 0
    /\ last.hits = 1
    /\ cache.search_movie[last.key].time = 0
    /\ Len(search_movie_body(Begin, last.key, OrcUp).val) = 1
    /\ search_movie(Begin, last.key, OrcUp).val = EmptyList
    /\ search_movie(Begin, last.key, OrcUp).st.reqs = 0

-----------------------------------------------------------------------------
(* The age of movie details inside the results of the tools: a provider    *)
(* that answers, three calls spread over a day, the cache never cleared.   *)

DetailAgeScenario ==
    [oracles |-> {OrcUp}, calls |-> MaxCalls + 1, names |-> {s_Al},
     sorts |-> {s_top_rated}]

NextDetailAge ==
    \/ CallDetails(DetailAgeScenario) \/ CallSearch(DetailAgeScenario)
    \/ CallGenre(DetailAgeScenario) \/ CallGenreDict(DetailAgeScenario)
    \/ CallSimilar(DetailAgeScenario) \/ CallTrending(DetailAgeScenario)
    \/ CallTopRated(DetailAgeScenario) \/ CallResolve(DetailAgeScenario)
    \/ CallActor(DetailAgeScenario) \/ CallDirector(DetailAgeScenario) \/ Elapse

SpecDetailAge == InitCache /\ [][NextDetailAge]_vars

\* C22: every movie record in the result of a tool was fetched from the
\* provider at most 12 hours, the ttl of get_movie_details, before the call
\* returned it, also when the tool's result comes from its own 6 hour entry.
C22_DetailsAtMostTwelveHoursOld ==
    last.op \in SevenTools =>
        \A k \in 1..Len(last.val) :
            Truthy(last.val[k]) => last.time - last.val[k].fetched <= TTL_get_movie_details

=============================================================================
